---- MODULE Spec2Model ----
(***************************************************************************)
(* Text-to-quad extraction of bevy_kayak_ui:                               *)
(*   src/bevy_kayak_ui/src/render/unified/font/extract.rs, extract_texts.  *)
(* One invocation is modelled statement by statement (pc), so that calls   *)
(* for different primitives can interleave.  The font registry             *)
(* (FontMapping) and the asset store (Assets<KayakFont>) are the only      *)
(* state that outlives a call.                                             *)
(***************************************************************************)
EXTENDS Integers, Sequences, FiniteSets, TLC

VARIABLES
    font_mapping,      \* FontMapping: logical font reference -> Option<Handle>
    fonts,             \* Assets<KayakFont>: handle -> Option<KayakFont>
    pc,                \* per invocation: the statement of extract_texts it is at
    render_primitive,  \* per invocation: Option of the argument of the call
    font_handle,       \* per invocation: local font_handle (line 33)
    font,              \* per invocation: local font, the borrowed KayakFont (line 34/40)
    chars_layouts,     \* per invocation: local chars_layouts (line 42)
    idx,               \* per invocation: position of the for loop (line 52)
    extracted_texts,   \* per invocation: local extracted_texts (line 21)
    ret,               \* per invocation: Option of the value handed to the caller
    trace,             \* per invocation: the collaborator calls made so far
    last,              \* the caller's record of the previous completed call
    changed            \* registry or asset store modified since that call

vars == << font_mapping, fonts, pc, render_primitive, font_handle, font,
           chars_layouts, idx, extracted_texts, ret, trace, last, changed >>

locals == << font_handle, font, chars_layouts, idx, extracted_texts, ret, trace >>

\* ------------------------------------------------------------------ bounds
\* longest text content of a primitive
MaxLen == 2

\* ------------------------------------------------------------ value spaces
\* Rust's Option<T>
None == << >>
Some(x) == << x >>
Unwrap(o) == o[1]

Procs == {1, 2}

Chars == {"H", "i", "x"}

FontRefs == {0, 1}

Handles == {"h1", "h2"}

FontNames == {"FA", "FB"}

\* KayakFont resources.  glyphs: the characters the layout engine lays out;
\* advance: horizontal advance in tenths of the font size; char_ids: the
\* character -> atlas glyph id table.  FB lays out "x" but has no id for it.
KayakFont(name) ==
    IF name = "FA"
    THEN [name |-> "FA", glyphs |-> {"H", "i"},
          advance |-> [c \in Chars |-> IF c = "H" THEN 6 ELSE IF c = "i" THEN 3 ELSE 5],
          char_ids |-> [c \in Chars |-> IF c = "H" THEN Some(1)
                                        ELSE IF c = "i" THEN Some(2) ELSE None]]
    ELSE [name |-> "FB", glyphs |-> {"H", "i", "x"},
          advance |-> [c \in Chars |-> IF c = "H" THEN 8 ELSE IF c = "i" THEN 4 ELSE 6],
          char_ids |-> [c \in Chars |-> IF c = "H" THEN Some(11)
                                        ELSE IF c = "i" THEN Some(12) ELSE None]]

RECURSIVE SeqsUpTo(_, _)
SeqsUpTo(S, n) ==
    IF n = 0 THEN { << >> }
    ELSE LET shorter == SeqsUpTo(S, n - 1)
         IN  shorter \cup { Append(s, c) : s \in { t \in shorter : Len(t) = n - 1 }, c \in S }

Contents == SeqsUpTo(Chars, MaxLen)

\* layout boxes: a wide one (the spec's example) and a narrow one that wraps
Layouts ==
    { [posx |-> 0, posy |-> 0, width |-> 100, height |-> 20, z_index |-> 1],
      [posx |-> 2, posy |-> 1, width |-> 5,   height |-> 20, z_index |-> 0] }

FontSizes == {5, 10}

Colors == { <<1, 0, 0, 1>> }

\* RenderPrimitive::Text { color, layout, size, content, font }
TextPrimitives ==
    [tag : {"Text"}, color : Colors, layout : Layouts, size : FontSizes,
     content : Contents, font : FontRefs]

\* any other variant of RenderPrimitive
OtherPrimitives ==
    [tag : {"Quad"}, color : Colors,
     layout : {[posx |-> 0, posy |-> 0, width |-> 100, height |-> 20, z_index |-> 1]},
     size : {5}, content : {<< >>}, font : {0}]

RenderPrimitives == TextPrimitives \cup OtherPrimitives

\* the primitives of a pass whose invocations interleave
PassContents == { << >>, <<"H", "i">>, <<"H", "x">> }

PassPrimitives ==
    { p \in TextPrimitives : /\ p.content \in PassContents
                             /\ p.size = 10
                             /\ p.layout.z_index = 1 }
    \cup OtherPrimitives

\* -------------------------------------------------------- collaborators
\* FontMapping::get_handle(font) -> Option<Handle<KayakFont>>
get_handle(mapping, font_ref) == mapping[font_ref]

\* Assets<KayakFont>::get(handle) -> Option<&KayakFont>
get(assets, handle) == assets[handle]

\* KayakFont::get_char_id(c) -> Option<u32>
get_char_id(f, c) == KayakFont(f).char_ids[c]

\* font_size * 1.2 (line 48), on font sizes that are multiples of 5
LineHeight(font_size) == (font_size * 12) \div 10

\* KayakFont::get_layout from character i on, the pen at (x, y) relative to
\* position: characters outside the font are skipped, a character that does
\* not fit the line wraps to the next one (PositiveYDown: y grows by
\* line_height), a character below the box is clipped.
RECURSIVE LayoutFrom(_, _, _, _, _, _, _, _, _)
LayoutFrom(f, position, max_size, content, line_height, font_size, i, x, y) ==
    IF i > Len(content) THEN << >>
    ELSE LET c    == content[i]
             w    == (KayakFont(f).advance[c] * font_size) \div 10
             wrap == x > 0 /\ x + w > max_size[1]
             nx   == IF wrap THEN 0 ELSE x
             ny   == IF wrap THEN y + line_height ELSE y
         IN  IF c \notin KayakFont(f).glyphs
             THEN LayoutFrom(f, position, max_size, content, line_height, font_size,
                             i + 1, x, y)
             ELSE IF ny + font_size > max_size[2]
             THEN LayoutFrom(f, position, max_size, content, line_height, font_size,
                             i + 1, nx + w, ny)
             ELSE << [content  |-> c,
                      position |-> << position[1] + nx, position[2] + ny >>,
                      size     |-> << w, font_size >>] >>
                  \o LayoutFrom(f, position, max_size, content, line_height, font_size,
                                i + 1, nx + w, ny)

\* KayakFont::get_layout(axis_alignment, alignment, position, max_size,
\*                       content, line_height, font_size) -> Vec<LayoutRect>
get_layout(f, axis_alignment, alignment, position, max_size, content, line_height, font_size) ==
    LayoutFrom(f, position, max_size, content, line_height, font_size, 1, 0, 0)

\* the arguments extract_texts passes to get_layout (lines 42-50)
LayoutOf(f, prim) ==
    get_layout(f, "PositiveYDown", "Start",
               << prim.layout.posx, prim.layout.posy + prim.size >>,
               << prim.layout.width, prim.layout.height >>,
               prim.content, LineHeight(prim.size), prim.size)

\* to_bevy_color: kayak_core Color -> bevy Color::rgba
to_bevy_color(color) ==
    [red |-> color[1], green |-> color[2], blue |-> color[3], alpha |-> color[4]]

\* Vec2 + Vec2
Vec2Add(a, b) == << a[1] + b[1], a[2] + b[2] >>

\* the ExtractQuadBundle pushed for one LayoutRect (lines 53-71)
ExtractQuadBundle(handle, f, prim, char_layout) ==
    [extracted_quad |->
        [font_handle   |-> Some(handle),
         rect          |-> [min |-> char_layout.position,
                            max |-> Vec2Add(char_layout.position, char_layout.size)],
         color         |-> to_bevy_color(prim.color),
         vertex_index  |-> 0,
         char_id       |-> Unwrap(get_char_id(f, char_layout.content)),
         z_index       |-> prim.layout.z_index,
         quad_type     |-> "Text",
         type_index    |-> 0,
         border_radius |-> <<0, 0, 0, 0>>,
         image         |-> None,
         uv_max        |-> None,
         uv_min        |-> None]]

\* the two ways a call ends
Panicked == [status |-> "panicked", value |-> None]
Returned(v) == [status |-> "returned", value |-> Some(v)]

\* extract_texts as one function of its three arguments (lines 16-75)
extract_texts(prim, assets, mapping) ==
    IF prim.tag # "Text" THEN Panicked
    ELSE LET handle == get_handle(mapping, prim.font)
         IN  IF handle = None THEN Panicked
             ELSE LET found == get(assets, Unwrap(handle))
                  IN  IF found = None THEN Returned(<< >>)
                      ELSE LET cl == LayoutOf(Unwrap(found), prim)
                           IN  IF \E i \in 1..Len(cl) :
                                      get_char_id(Unwrap(found), cl[i].content) = None
                               THEN Panicked
                               ELSE Returned([i \in 1..Len(cl) |->
                                        ExtractQuadBundle(Unwrap(handle), Unwrap(found),
                                                          prim, cl[i])])

\* ------------------------------------------------------------------ state
Init ==
    /\ font_mapping = [r \in FontRefs |-> None]
    /\ fonts = [h \in Handles |-> None]
    /\ pc = [p \in Procs |-> "idle"]
    /\ render_primitive = [p \in Procs |-> None]
    /\ font_handle = [p \in Procs |-> None]
    /\ font = [p \in Procs |-> None]
    /\ chars_layouts = [p \in Procs |-> << >>]
    /\ idx = [p \in Procs |-> 0]
    /\ extracted_texts = [p \in Procs |-> << >>]
    /\ ret = [p \in Procs |-> None]
    /\ trace = [p \in Procs |-> << >>]
    /\ last = None
    /\ changed = FALSE

\* no invocation holds the shared borrows Res<Assets<KayakFont>>, Res<FontMapping>
Quiescent == \A p \in Procs : pc[p] = "idle"

\* ------------------------------------------------- registry and asset store
\* FontMapping::add: the next free logical reference is bound to a handle
\* that is not registered yet
Register(r, h) ==
    /\ Quiescent
    /\ font_mapping[r] = None
    /\ \A q \in FontRefs : q < r => font_mapping[q] # None
    /\ \A q \in FontRefs : font_mapping[q] # Some(h)
    /\ font_mapping' = [font_mapping EXCEPT ![r] = Some(h)]
    /\ changed' = TRUE
    /\ UNCHANGED << fonts, pc, render_primitive, locals, last >>

\* the asset system finishes loading a font, hot-reloads it or drops it
SetAsset(h, v) ==
    /\ Quiescent
    /\ fonts[h] # v
    /\ fonts' = [fonts EXCEPT ![h] = v]
    /\ changed' = TRUE
    /\ UNCHANGED << font_mapping, pc, render_primitive, locals, last >>

\* ------------------------------------------------------------ extract_texts
\* Call with extracted_texts kept in a buffer that outlives the call and is
\* not cleared
Call_static(p, prim) ==
    /\ pc[p] = "idle"
    /\ render_primitive' = [render_primitive EXCEPT ![p] = Some(prim)]
    /\ font_handle' = [font_handle EXCEPT ![p] = None]
    /\ font' = [font EXCEPT ![p] = None]
    /\ chars_layouts' = [chars_layouts EXCEPT ![p] = << >>]
    /\ idx' = [idx EXCEPT ![p] = 0]
    /\ ret' = [ret EXCEPT ![p] = None]
    /\ trace' = [trace EXCEPT ![p] = << >>]
    /\ pc' = [pc EXCEPT ![p] = "classify"]
    /\ UNCHANGED << font_mapping, fonts, extracted_texts, last, changed >>

\* the call: a fresh frame; line 21, let mut extracted_texts = Vec::new()
Call(p, prim) ==
    /\ pc[p] = "idle"
    /\ render_primitive' = [render_primitive EXCEPT ![p] = Some(prim)]
    /\ extracted_texts' = [extracted_texts EXCEPT ![p] = << >>]
    /\ font_handle' = [font_handle EXCEPT ![p] = None]
    /\ font' = [font EXCEPT ![p] = None]
    /\ chars_layouts' = [chars_layouts EXCEPT ![p] = << >>]
    /\ idx' = [idx EXCEPT ![p] = 0]
    /\ ret' = [ret EXCEPT ![p] = None]
    /\ trace' = [trace EXCEPT ![p] = << >>]
    /\ pc' = [pc EXCEPT ![p] = "classify"]
    /\ UNCHANGED << font_mapping, fonts, last, changed >>

\* Classify with  _ => return vec![]  in place of the panic
Classify_lenient(p) ==
    /\ pc[p] = "classify"
    /\ IF Unwrap(render_primitive[p]).tag = "Text"
       THEN /\ pc' = [pc EXCEPT ![p] = "get_handle"]
            /\ UNCHANGED ret
       ELSE /\ pc' = [pc EXCEPT ![p] = "returned"]
            /\ ret' = [ret EXCEPT ![p] = Some(<< >>)]
    /\ UNCHANGED << font_mapping, fonts, render_primitive, font_handle, font,
                    chars_layouts, idx, extracted_texts, trace, last, changed >>

\* lines 22-31: match render_primitive { Text {..} => .., _ => panic!("") }
Classify(p) ==
    /\ pc[p] = "classify"
    /\ pc' = [pc EXCEPT ![p] =
                IF Unwrap(render_primitive[p]).tag = "Text" THEN "get_handle"
                ELSE "panicked"]
    /\ UNCHANGED << font_mapping, fonts, render_primitive, locals, last, changed >>

\* GetHandle with an unregistered reference answered by an empty result
GetHandle_default(p) ==
    /\ pc[p] = "get_handle"
    /\ LET found == get_handle(font_mapping, Unwrap(render_primitive[p]).font)
       IN  /\ trace' = [trace EXCEPT ![p] = Append(@, "get_handle")]
           /\ IF found = None
              THEN /\ pc' = [pc EXCEPT ![p] = "returned"]
                   /\ ret' = [ret EXCEPT ![p] = Some(<< >>)]
                   /\ UNCHANGED font_handle
              ELSE /\ font_handle' = [font_handle EXCEPT ![p] = found]
                   /\ pc' = [pc EXCEPT ![p] = "get_font"]
                   /\ UNCHANGED ret
    /\ UNCHANGED << font_mapping, fonts, render_primitive, font, chars_layouts,
                    idx, extracted_texts, last, changed >>

\* line 33: let font_handle = font_mapping.get_handle(font).unwrap()
GetHandle(p) ==
    /\ pc[p] = "get_handle"
    /\ LET found == get_handle(font_mapping, Unwrap(render_primitive[p]).font)
       IN  /\ trace' = [trace EXCEPT ![p] = Append(@, "get_handle")]
           /\ IF found = None
              THEN /\ pc' = [pc EXCEPT ![p] = "panicked"]
                   /\ UNCHANGED font_handle
              ELSE /\ font_handle' = [font_handle EXCEPT ![p] = found]
                   /\ pc' = [pc EXCEPT ![p] = "get_font"]
    /\ UNCHANGED << font_mapping, fonts, render_primitive, font, chars_layouts,
                    idx, extracted_texts, ret, last, changed >>

\* GetFont without the short-circuit: an absent font falls back to a built-in
\* one and the call goes on to the layout
GetFont_fallback(p) ==
    /\ pc[p] = "get_font"
    /\ LET found == get(fonts, Unwrap(font_handle[p]))
       IN  /\ trace' = [trace EXCEPT ![p] = Append(@, "get")]
           /\ font' = [font EXCEPT ![p] = IF found = None THEN Some("FA") ELSE found]
           /\ pc' = [pc EXCEPT ![p] = "layout"]
    /\ UNCHANGED << font_mapping, fonts, render_primitive, font_handle,
                    chars_layouts, idx, extracted_texts, ret, last, changed >>

\* GetFont with the borrowed font kept in one slot that all invocations share
GetFont_shared(p) ==
    /\ pc[p] = "get_font"
    /\ LET found == get(fonts, Unwrap(font_handle[p]))
       IN  /\ trace' = [trace EXCEPT ![p] = Append(@, "get")]
           /\ IF found = None
              THEN /\ ret' = [ret EXCEPT ![p] = Some(<< >>)]
                   /\ pc' = [pc EXCEPT ![p] = "returned"]
                   /\ UNCHANGED font
              ELSE /\ font' = [q \in Procs |-> found]
                   /\ pc' = [pc EXCEPT ![p] = "layout"]
                   /\ UNCHANGED ret
    /\ UNCHANGED << font_mapping, fonts, render_primitive, font_handle,
                    chars_layouts, idx, extracted_texts, last, changed >>

\* GetFont that remembers "not ready" from the frame before
GetFont_sticky(p) ==
    /\ pc[p] = "get_font"
    /\ LET fresh == get(fonts, Unwrap(font_handle[p]))
           found == IF last # None /\ Unwrap(last).outcome = Returned(<< >>)
                    THEN None ELSE fresh
       IN  /\ trace' = [trace EXCEPT ![p] = Append(@, "get")]
           /\ font' = [font EXCEPT ![p] = found]
           /\ IF found = None
              THEN /\ ret' = [ret EXCEPT ![p] = Some(<< >>)]
                   /\ pc' = [pc EXCEPT ![p] = "returned"]
              ELSE /\ pc' = [pc EXCEPT ![p] = "layout"]
                   /\ UNCHANGED ret
    /\ UNCHANGED << font_mapping, fonts, render_primitive, font_handle,
                    chars_layouts, idx, extracted_texts, last, changed >>

\* lines 34-40: let font = fonts.get(..); if font.is_none() { return vec![] }
GetFont(p) ==
    /\ pc[p] = "get_font"
    /\ LET found == get(fonts, Unwrap(font_handle[p]))
       IN  /\ trace' = [trace EXCEPT ![p] = Append(@, "get")]
           /\ font' = [font EXCEPT ![p] = found]
           /\ IF found = None
              THEN /\ ret' = [ret EXCEPT ![p] = Some(<< >>)]
                   /\ pc' = [pc EXCEPT ![p] = "returned"]
              ELSE /\ pc' = [pc EXCEPT ![p] = "layout"]
                   /\ UNCHANGED ret
    /\ UNCHANGED << font_mapping, fonts, render_primitive, font_handle,
                    chars_layouts, idx, extracted_texts, last, changed >>

\* lines 42-50: let chars_layouts = font.get_layout(..)
Layout(p) ==
    /\ pc[p] = "layout"
    /\ chars_layouts' = [chars_layouts EXCEPT ![p] =
                            LayoutOf(Unwrap(font[p]), Unwrap(render_primitive[p]))]
    /\ trace' = [trace EXCEPT ![p] = Append(@, "get_layout")]
    /\ idx' = [idx EXCEPT ![p] = 1]
    /\ pc' = [pc EXCEPT ![p] = "loop"]
    /\ UNCHANGED << font_mapping, fonts, render_primitive, font_handle, font,
                    extracted_texts, ret, last, changed >>

\* line 52: the iterator is exhausted, the loop ends
LoopExit(p) ==
    /\ pc' = [pc EXCEPT ![p] = "return"]
    /\ UNCHANGED << extracted_texts, idx, trace >>

\* line 62: get_char_id(..).unwrap() on None
LoopPanic(p) ==
    /\ trace' = [trace EXCEPT ![p] = Append(@, "get_char_id")]
    /\ pc' = [pc EXCEPT ![p] = "panicked"]
    /\ UNCHANGED << extracted_texts, idx >>

\* line 53: extracted_texts.push(bundle), on to the next LayoutRect
LoopPush(p, bundle) ==
    /\ trace' = [trace EXCEPT ![p] = Append(@, "get_char_id")]
    /\ extracted_texts' = [extracted_texts EXCEPT ![p] = Append(@, bundle)]
    /\ idx' = [idx EXCEPT ![p] = @ + 1]
    /\ UNCHANGED pc

\* the character of the current LayoutRect has no glyph id in the borrowed font
GlyphMissing(p) ==
    get_char_id(Unwrap(font[p]), chars_layouts[p][idx[p]].content) = None

\* the bundle for the current LayoutRect
CurrentBundle(p) ==
    ExtractQuadBundle(Unwrap(font_handle[p]), Unwrap(font[p]),
                      Unwrap(render_primitive[p]), chars_layouts[p][idx[p]])

\* LoopStep with rect.max = char_layout.size, the position not added
LoopStep_max(p) ==
    /\ pc[p] = "loop"
    /\ IF idx[p] > Len(chars_layouts[p]) THEN LoopExit(p)
       ELSE IF GlyphMissing(p) THEN LoopPanic(p)
       ELSE LoopPush(p, [extracted_quad |->
                [CurrentBundle(p).extracted_quad EXCEPT
                    !.rect.max = chars_layouts[p][idx[p]].size]])
    /\ UNCHANGED << font_mapping, fonts, render_primitive, font_handle, font,
                    chars_layouts, ret, last, changed >>

\* LoopStep that leaves the loop at a character without glyph id and returns
\* what it has
LoopStep_break(p) ==
    /\ pc[p] = "loop"
    /\ IF idx[p] > Len(chars_layouts[p]) THEN LoopExit(p)
       ELSE IF GlyphMissing(p)
       THEN /\ trace' = [trace EXCEPT ![p] = Append(@, "get_char_id")]
            /\ pc' = [pc EXCEPT ![p] = "return"]
            /\ UNCHANGED << extracted_texts, idx >>
       ELSE LoopPush(p, CurrentBundle(p))
    /\ UNCHANGED << font_mapping, fonts, render_primitive, font_handle, font,
                    chars_layouts, ret, last, changed >>

\* LoopStep with z_index defaulted to 0 like vertex_index and type_index
LoopStep_zindex(p) ==
    /\ pc[p] = "loop"
    /\ IF idx[p] > Len(chars_layouts[p]) THEN LoopExit(p)
       ELSE IF GlyphMissing(p) THEN LoopPanic(p)
       ELSE LoopPush(p, [extracted_quad |->
                [CurrentBundle(p).extracted_quad EXCEPT !.z_index = 0]])
    /\ UNCHANGED << font_mapping, fonts, render_primitive, font_handle, font,
                    chars_layouts, ret, last, changed >>

\* LoopStep as a loop that reads chars_layouts[0] before it tests the length:
\* indexing the empty Vec panics
LoopStep_dowhile(p) ==
    /\ pc[p] = "loop"
    /\ IF Len(chars_layouts[p]) = 0
       THEN /\ pc' = [pc EXCEPT ![p] = "panicked"]
            /\ UNCHANGED << extracted_texts, idx, trace >>
       ELSE IF idx[p] > Len(chars_layouts[p]) THEN LoopExit(p)
       ELSE IF GlyphMissing(p) THEN LoopPanic(p)
       ELSE LoopPush(p, CurrentBundle(p))
    /\ UNCHANGED << font_mapping, fonts, render_primitive, font_handle, font,
                    chars_layouts, ret, last, changed >>

\* lines 52-72: one iteration of  for char_layout in chars_layouts { push },
\* get_char_id(..).unwrap() panics on a character without glyph id
LoopStep(p) ==
    /\ pc[p] = "loop"
    /\ IF idx[p] > Len(chars_layouts[p]) THEN LoopExit(p)
       ELSE IF GlyphMissing(p) THEN LoopPanic(p)
       ELSE LoopPush(p, CurrentBundle(p))
    /\ UNCHANGED << font_mapping, fonts, render_primitive, font_handle, font,
                    chars_layouts, ret, last, changed >>

\* line 74: extracted_texts
Return(p) ==
    /\ pc[p] = "return"
    /\ ret' = [ret EXCEPT ![p] = Some(extracted_texts[p])]
    /\ pc' = [pc EXCEPT ![p] = "returned"]
    /\ UNCHANGED << font_mapping, fonts, render_primitive, font_handle, font,
                    chars_layouts, idx, extracted_texts, trace, last, changed >>

\* ------------------------------------------------------------------ callers
Finished(p) == pc[p] \in {"returned", "panicked"}

\* what the caller of invocation p observes
Outcome(p) == [status |-> pc[p], value |-> ret[p]]

\* the extraction pass of one frame calls extract_texts for the primitive
\* it called it for in the frame before
Frame(p) ==
    \E prim \in RenderPrimitives :
        /\ last # None => prim = Unwrap(last).prim
        /\ Call(p, prim)

\* the font of a Text primitive is registered but not in the asset store
FontAbsent(prim) ==
    /\ prim.tag = "Text"
    /\ font_mapping[prim.font] # None
    /\ fonts[Unwrap(font_mapping[prim.font])] = None

\* the frame's caller takes the outcome and notes whether the font was
\* still absent; the borrows end
Observe(p) ==
    /\ Finished(p)
    /\ last' = Some([prim    |-> Unwrap(render_primitive[p]),
                     outcome |-> Outcome(p),
                     absent  |-> FontAbsent(Unwrap(render_primitive[p]))])
    /\ changed' = FALSE
    /\ pc' = [pc EXCEPT ![p] = "idle"]
    /\ UNCHANGED << font_mapping, fonts, render_primitive, locals >>

\* a pass that extracts several primitives at once starts one of them
PassCall(p) == \E prim \in PassPrimitives : Call(p, prim)

\* the pass drops the outcome of a finished invocation
Release(p) ==
    /\ Finished(p)
    /\ pc' = [pc EXCEPT ![p] = "idle"]
    /\ UNCHANGED << font_mapping, fonts, render_primitive, locals, last, changed >>

Environment ==
    \/ \E r \in FontRefs, h \in Handles : Register(r, h)
    \/ \E h \in Handles, v \in {None} \cup { Some(n) : n \in FontNames } : SetAsset(h, v)

Step(p) ==
    \/ Classify(p)
    \/ GetHandle(p)
    \/ GetFont(p)
    \/ Layout(p)
    \/ LoopStep(p)
    \/ Return(p)

\* one caller, one invocation per frame
Next ==
    \/ Environment
    \/ Frame(1)
    \/ Step(1)
    \/ Observe(1)

Spec == Init /\ [][Next]_vars

\* a pass whose invocations interleave statement by statement
NextPass ==
    \/ Environment
    \/ \E p \in Procs : PassCall(p)
    \/ \E p \in Procs : Step(p)
    \/ \E p \in Procs : Release(p)

SpecPass == Init /\ [][NextPass]_vars

\* ================================================================ claims
\* the primitive of invocation p
Prim(p) == Unwrap(render_primitive[p])

\* invocation p was called and its outcome was not taken yet; the registry
\* and the asset store are what they were when it was called
Active(p) == pc[p] # "idle"

IsText(p) == Prim(p).tag = "Text"

Registered(p) == font_mapping[Prim(p).font] # None

Loaded(p) == Registered(p) /\ fonts[Unwrap(font_mapping[Prim(p).font])] # None

\* the font resource the primitive of p names, when Loaded(p)
FontOf(p) == Unwrap(fonts[Unwrap(font_mapping[Prim(p).font])])

Calls(p, name) == { i \in 1..Len(trace[p]) : trace[p][i] = name }

\* every LayoutRect the layout engine returned to p has a glyph id
AllMapped(p) ==
    \A i \in 1..Len(chars_layouts[p]) :
        get_char_id(FontOf(p), chars_layouts[p][i].content) # None

\* C1: a Text primitive whose font is registered but absent from the asset
\* store makes extract_texts return the empty sequence, with no call of
\* get_layout and no call of get_char_id, whatever content, box and size are.
C1_NotLoadedIsEmpty ==
    \A p \in Procs :
        (Active(p) /\ IsText(p) /\ Registered(p) /\ ~Loaded(p)) =>
            /\ Calls(p, "get_layout") = {}
            /\ Calls(p, "get_char_id") = {}
            /\ pc[p] # "panicked"
            /\ Finished(p) => Outcome(p) = Returned(<< >>)

C1_Witness ==
    \E p \in Procs :
        /\ pc[p] = "returned" /\ IsText(p) /\ Registered(p) /\ ~Loaded(p)
        /\ Len(Prim(p).content) = MaxLen
        /\ Prim(p).size = 10
        /\ ret[p] = Some(<< >>)

\* C2: with a registered, loaded font and glyph ids for all layout records,
\* the returned sequence has the length of the layout engine's output and
\* record i has rect.min = layout[i].position, rect.max = layout[i].position
\* + layout[i].size and char_id = the glyph id of layout[i].content.
C2_OneQuadPerLayoutRect ==
    \A p \in Procs :
        (Finished(p) /\ IsText(p) /\ Loaded(p) /\ AllMapped(p)) =>
            /\ pc[p] = "returned"
            /\ ret[p] # None
            /\ Len(Unwrap(ret[p])) = Len(chars_layouts[p])
            /\ \A i \in 1..Len(chars_layouts[p]) :
                 LET quad == Unwrap(ret[p])[i].extracted_quad
                     rect == chars_layouts[p][i]
                 IN  /\ quad.rect.min = rect.position
                     /\ quad.rect.max[1] = rect.position[1] + rect.size[1]
                     /\ quad.rect.max[2] = rect.position[2] + rect.size[2]
                     /\ Some(quad.char_id) = get_char_id(FontOf(p), rect.content)

C2_Witness ==
    \E p \in Procs :
        /\ pc[p] = "returned" /\ IsText(p) /\ Loaded(p) /\ AllMapped(p)
        /\ Len(Unwrap(ret[p])) = 2
        /\ Unwrap(ret[p])[1].extracted_quad.rect.min # Unwrap(ret[p])[2].extracted_quad.rect.min
        /\ Unwrap(ret[p])[2].extracted_quad.rect.min[2] > Unwrap(ret[p])[1].extracted_quad.rect.min[2]

\* C3: no partial result: a call ends with the full sequence (one record per
\* layout record), with the empty sequence, or fatally without a value; when
\* a layout record has no glyph id the call ends fatally and the records
\* pushed before it never reach the caller.
C3_NoPartialResult ==
    \A p \in Procs :
        Active(p) =>
            /\ ret[p] # None =>
                 /\ pc[p] = "returned"
                 /\ Len(Unwrap(ret[p])) = Len(chars_layouts[p])
            /\ pc[p] = "returned" => ret[p] # None
            /\ pc[p] = "panicked" => ret[p] = None
            /\ (Finished(p) /\ IsText(p) /\ Loaded(p) /\ ~AllMapped(p)) =>
                 pc[p] = "panicked"

C3_Witness ==
    \E p \in Procs :
        /\ pc[p] = "panicked" /\ IsText(p) /\ Loaded(p) /\ ~AllMapped(p)
        /\ Len(extracted_texts[p]) >= 1
        /\ Len(extracted_texts[p]) < Len(chars_layouts[p])
        /\ ret[p] = None

\* C4: a Text primitive whose font reference has no registry entry makes
\* extract_texts end fatally without a value, whatever the asset store
\* holds: the registry is looked up before the asset store.
C4_UnregisteredIsFatal ==
    \A p \in Procs :
        Active(p) =>
            /\ (IsText(p) /\ ~Registered(p)) =>
                 /\ ret[p] = None
                 /\ pc[p] # "returned"
                 /\ Calls(p, "get") = {}
                 /\ Calls(p, "get_layout") = {}
            /\ \A i \in Calls(p, "get") : \E j \in Calls(p, "get_handle") : j < i

C4_Witness ==
    \E p \in Procs :
        /\ pc[p] = "panicked" /\ IsText(p) /\ ~Registered(p)
        /\ \E h \in Handles : fonts[h] # None
        /\ trace[p] = << "get_handle" >>

\* C5: extract_texts succeeds only for the Text variant: for any other
\* primitive it ends fatally before any registry lookup, asset-store lookup,
\* layout call or glyph lookup, and returns no value.
C5_NonTextIsFatal ==
    \A p \in Procs :
        Active(p) =>
            /\ ~IsText(p) =>
                 /\ trace[p] = << >>
                 /\ ret[p] = None
                 /\ pc[p] \in {"classify", "panicked"}
            /\ pc[p] = "returned" => IsText(p)

C5_Witness ==
    \E p \in Procs : pc[p] = "panicked" /\ ~IsText(p) /\ trace[p] = << >>

\* C6: idempotence: a second call with the same primitive, the registry and
\* the asset store unchanged since the first, has the same outcome: the
\* same sequence record for record, or fatal termination both times.
C6_Idempotent ==
    \A p \in Procs :
        (Finished(p) /\ last # None /\ ~changed /\ Unwrap(last).prim = Prim(p)) =>
            Outcome(p) = Unwrap(last).outcome

C6_Witness ==
    \E p \in Procs :
        /\ pc[p] = "returned" /\ last # None /\ ~changed
        /\ Unwrap(last).prim = Prim(p)
        /\ Len(Unwrap(ret[p])) = 2
        /\ Unwrap(last).outcome = Outcome(p)

\* C7: every record of the sequence, at every position and for every glyph
\* count, has the z_index of the input layout and quad_type Text.
C7_ZIndexPropagates ==
    \A p \in Procs :
        Active(p) =>
            /\ \A i \in 1..Len(extracted_texts[p]) :
                 /\ extracted_texts[p][i].extracted_quad.z_index = Prim(p).layout.z_index
                 /\ extracted_texts[p][i].extracted_quad.quad_type = "Text"
            /\ ret[p] # None =>
                 \A i \in 1..Len(Unwrap(ret[p])) :
                     /\ Unwrap(ret[p])[i].extracted_quad.z_index = Prim(p).layout.z_index
                     /\ Unwrap(ret[p])[i].extracted_quad.quad_type = "Text"

C7_Witness ==
    \E p \in Procs :
        /\ pc[p] = "returned"
        /\ Prim(p).layout.z_index = 1
        /\ Len(Unwrap(ret[p])) = MaxLen
        /\ \A i \in 1..MaxLen : Unwrap(ret[p])[i].extracted_quad.z_index = 1

\* C8: a Text primitive with empty content and a registered, loaded font
\* makes extract_texts return the empty sequence and not end fatally.
C8_EmptyContentIsEmpty ==
    \A p \in Procs :
        (Finished(p) /\ IsText(p) /\ Loaded(p) /\ Prim(p).content = << >>) =>
            Outcome(p) = Returned(<< >>)

C8_Witness ==
    \E p \in Procs :
        /\ pc[p] = "returned" /\ IsText(p) /\ Loaded(p) /\ Prim(p).content = << >>
        /\ trace[p] = << "get_handle", "get", "get_layout" >>
        /\ ret[p] = Some(<< >>)

\* C9: interleaved invocations are independent: with the registry and the
\* asset store unmodified while any of them runs, each invocation ends as it
\* would alone, and each of its records carries the handle and the glyph ids
\* of the one font the invocation resolved and laid out with.
C9_InterleavingIndependent ==
    \A p \in Procs :
        Active(p) =>
            /\ Finished(p) => Outcome(p) = extract_texts(Prim(p), fonts, font_mapping)
            /\ font[p] # None =>
                 /\ font_handle[p] = font_mapping[Prim(p).font]
                 /\ font[p] = fonts[Unwrap(font_handle[p])]
            /\ pc[p] \in {"loop", "return", "returned", "panicked"} /\ font[p] # None =>
                 chars_layouts[p] = LayoutOf(Unwrap(font[p]), Prim(p))
            /\ \A i \in 1..Len(extracted_texts[p]) :
                 LET quad == extracted_texts[p][i].extracted_quad
                 IN  /\ quad.font_handle = font_handle[p]
                     /\ Some(quad.char_id) =
                            get_char_id(Unwrap(font[p]), chars_layouts[p][i].content)

C9_Witness ==
    /\ pc[1] = "returned" /\ pc[2] = "loop"
    /\ font[1] # None /\ font[2] # None /\ font[1] # font[2]
    /\ Len(Unwrap(ret[1])) = 2
    /\ Len(extracted_texts[2]) = 1
    /\ idx[2] = 2

\* C10 as stated: called once per frame for the same Text primitive,
\* extract_texts returns the empty sequence in every frame in which the font
\* is absent and the full glyph sequence of the loaded font (one record per
\* layout record) in the first frame in which it is loaded.
C10_AsClaimed ==
    \A p \in Procs :
        (Finished(p) /\ IsText(p) /\ Registered(p)) =>
            /\ ~Loaded(p) => Outcome(p) = Returned(<< >>)
            /\ (Loaded(p) /\ last # None /\ Unwrap(last).absent) =>
                 /\ pc[p] = "returned"
                 /\ ret[p] # None
                 /\ Len(Unwrap(ret[p])) = Len(LayoutOf(FontOf(p), Prim(p)))

\* C10, amended: called once per frame for the same Text primitive,
\* extract_texts returns the empty sequence in every frame in which the font
\* is absent; in the first frame in which it is loaded it returns the full
\* glyph sequence of the loaded font when every laid-out character has a
\* glyph id in it, and ends fatally without a value when one has none.
\* Nothing of the earlier frames is kept: the outcome of a frame is a
\* function of the primitive, the registry and the asset store of that frame.
C10_RetryAcrossFrames ==
    \A p \in Procs :
        Finished(p) =>
            /\ Outcome(p) = extract_texts(Prim(p), fonts, font_mapping)
            /\ (IsText(p) /\ Registered(p) /\ ~Loaded(p)) => Outcome(p) = Returned(<< >>)
            /\ (IsText(p) /\ Loaded(p)) =>
                 LET cl == LayoutOf(FontOf(p), Prim(p))
                 IN  IF \A i \in 1..Len(cl) : get_char_id(FontOf(p), cl[i].content) # None
                     THEN /\ pc[p] = "returned"
                          /\ ret[p] # None
                          /\ Len(Unwrap(ret[p])) = Len(cl)
                          /\ \A i \in 1..Len(cl) :
                               Some(Unwrap(ret[p])[i].extracted_quad.char_id) =
                                   get_char_id(FontOf(p), cl[i].content)
                     ELSE Outcome(p) = Panicked

C10_Witness ==
    \E p \in Procs :
        /\ pc[p] = "returned" /\ IsText(p) /\ Loaded(p)
        /\ last # None /\ changed
        /\ Unwrap(last).prim = Prim(p)
        /\ Unwrap(last).absent
        /\ Unwrap(last).outcome = Returned(<< >>)
        /\ Len(Unwrap(ret[p])) >= 1

====
